---- MODULE Spec2Model ----
(***************************************************************************)
(* Model of custom_components/solcast_solar/config_flow.py: the two        *)
(* validators (validate_api_key, validate_api_limit), the hard-limit       *)
(* validation of the options flow, the first-setup flow                    *)
(* (SolcastSolarFlowHandler.async_step_user) and the options flow          *)
(* (SolcastSolarOptionFlowHandler.async_step_init / async_step_dampen).    *)
(*                                                                         *)
(* Text is a sequence of one-character strings, so that replace, split,    *)
(* strip, join, isnumeric, int, float and the "{:.1f}" format are computed *)
(* on characters as Python computes them.  An options mapping is a         *)
(* function from option names (the names of const.py) to values.           *)
(* Dampening factors are held in tenths (10 stands for 1.0).               *)
(***************************************************************************)
EXTENDS Integers, Sequences, FiniteSets, TLC

VARIABLES
    entries,     \* hass.config_entries of the domain: <<>> or <<options>>
    step,        \* where the flow in progress stands
    options,     \* self._options of the options-flow handler (<<>>: no handler)
    draft,       \* self._all_config_data (<<>>: None)
    result,      \* the ConfigFlowResult last returned
    submitted,   \* history: the flags of the submission last handled
    kv,          \* validate_api_key applied to a drawn key list
    lv           \* the limit validators applied to a drawn limit field

vars == <<entries, step, options, draft, result, submitted, kv, lv>>

(***************************************************************************)
(* Bounds                                                                  *)
(***************************************************************************)
\* most API keys in one key field
MaxKeys == 2
\* most tokens in a key list drawn for validate_api_key alone
MaxKeyTokens == 3

(***************************************************************************)
(* Text                                                                    *)
(***************************************************************************)
Digits == <<"0", "1", "2", "3", "4", "5", "6", "7", "8", "9">>

DigitSet == {Digits[n] : n \in 1..10}

LowerSet == {"a", "b", "c", "d", "e", "f", "g", "h", "i", "j", "k", "l", "m",
             "n", "o", "p", "q", "r", "s", "t", "u", "v", "w", "x", "y", "z"}

\* SUPERSCRIPT TWO: str.isnumeric() and str.isdigit() accept it, int() and
\* float() raise ValueError on it
Sup2 == "sup2"

DigitVal(c) == CHOOSE n \in 0..9 : Digits[n + 1] = c

\* str.replace(" ", "")
RemoveSpaces(s) == SelectSeq(s, LAMBDA c : c # " ")

RECURSIVE SplitFrom(_, _, _)
SplitFrom(s, k, cur) ==
    IF k > Len(s) THEN <<cur>>
    ELSE IF s[k] = "," THEN <<cur>> \o SplitFrom(s, k + 1, <<>>)
    ELSE SplitFrom(s, k + 1, Append(cur, s[k]))

\* str.split(","): always at least one token, empty tokens kept
Split(s) == SplitFrom(s, 1, <<>>)

\* [s for s in ... if s]
DropEmpty(toks) == SelectSeq(toks, LAMBDA t : t # <<>>)

RECURSIVE Join(_)
\* ",".join(toks)
Join(toks) ==
    IF Len(toks) = 0 THEN <<>>
    ELSE IF Len(toks) = 1 THEN toks[1]
    ELSE toks[1] \o <<",">> \o Join(Tail(toks))

RECURSIVE Strip(_)
\* str.strip() (of spaces, the only white space of the alphabet)
Strip(s) ==
    IF s = <<>> THEN s
    ELSE IF Head(s) = " " THEN Strip(Tail(s))
    ELSE IF s[Len(s)] = " " THEN Strip(SubSeq(s, 1, Len(s) - 1))
    ELSE s

\* str.isnumeric(): non-empty, every character numeric
IsNumeric(s) == s # <<>> /\ \A k \in 1..Len(s) : s[k] \in DigitSet \cup {Sup2}

\* str.isdigit(): the same characters, over this alphabet
IsDigit(s) == s # <<>> /\ \A k \in 1..Len(s) : s[k] \in DigitSet \cup {Sup2}

\* int(s) and float(s) raise ValueError on a character that is no decimal digit
ParseRaises(s) == \E k \in 1..Len(s) : s[k] \notin DigitSet \cup {"."}

RECURSIVE IntOf(_)
\* int(s) of a string of decimal digits
IntOf(s) ==
    IF s = <<>> THEN 0
    ELSE 10 * IntOf(SubSeq(s, 1, Len(s) - 1)) + DigitVal(s[Len(s)])

RECURSIVE StrOf(_)
\* str(n) of a natural number
StrOf(n) == IF n < 10 THEN <<Digits[n + 1]>> ELSE StrOf(n \div 10) \o <<Digits[(n % 10) + 1]>>

\* str.replace(".", "", 1)
RemoveFirstDot(s) ==
    IF \E k \in 1..Len(s) : s[k] = "."
    THEN LET k == CHOOSE j \in 1..Len(s) : s[j] = "." /\ \A m \in 1..(j - 1) : s[m] # "."
         IN  SubSeq(s, 1, k - 1) \o SubSeq(s, k + 1, Len(s))
    ELSE s

\* where the point of h stands (past the end: none)
DotIndex(h) ==
    IF \E k \in 1..Len(h) : h[k] = "."
    THEN CHOOSE k \in 1..Len(h) : h[k] = "." ELSE Len(h) + 1

\* the fractional digits fp in hundredths; the fields drawn carry at most two
FracHundredths(fp) ==
    IF Len(fp) = 0 THEN 0
    ELSE IF Len(fp) = 1 THEN 10 * DigitVal(fp[1])
    ELSE 10 * DigitVal(fp[1]) + DigitVal(fp[2])

HundredthsAt(h, dot) ==
    100 * IntOf(SubSeq(h, 1, dot - 1)) + FracHundredths(SubSeq(h, dot + 1, Len(h)))

\* float(h) of digits with at most one point, in hundredths
Hundredths(h) == HundredthsAt(h, DotIndex(h))

\* the tenths nearest to n hundredths, a tie going to the even tenth: the
\* ties drawn are .25 and .75, which a binary float holds exactly
TenthsNearest(n) ==
    IF n % 10 > 5 \/ (n % 10 = 5 /\ (n \div 10) % 2 = 1)
    THEN (n \div 10) + 1 ELSE n \div 10

\* v tenths written with one fractional digit
TenthsText(v) == StrOf(v \div 10) \o <<".", Digits[(v % 10) + 1]>>

\* f"{float(h):.1f}"
FormatOneDecimal(h) == TenthsText(TenthsNearest(Hundredths(h)))

(***************************************************************************)
(* The fields drawn                                                       *)
(***************************************************************************)
Key(n) == <<"k", Digits[n + 1]>>

SiteId == <<"a", "b", "1", "2", "-", "c", "d", "3", "4", "-",
            "e", "f", "5", "6", "-", "g", "h", "7", "8">>

\* "k1,k2,...,kn"
KeyList(n) == Join([k \in 1..n |-> Key(k)])

\* lists of 0..MaxKeys distinct keys; " k1 ,, k2"; "k1,k1"; a site ID
KeyFields ==
    {KeyList(n) : n \in 0..MaxKeys}
        \cup {<<" ">> \o Key(1) \o <<" ", ",", ",", " ">> \o Key(2),
              Key(1) \o <<",">> \o Key(1),
              SiteId}

\* "10,20,...": n quotas
QuotaList(n) == Join([k \in 1..n |-> StrOf(10 * k)])

\* lists of 0..MaxKeys+1 quotas; " 5 ,,"; "x"; a superscript two
QuotaFields ==
    {QuotaList(n) : n \in 0..(MaxKeys + 1)}
        \cup {<<" ", "5", " ", ",", ",">>, <<"x">>, <<Sup2>>}

HardTokenTable == << <<"5">>, <<" ", "7", ".", "2", "5">>,
                     <<"2", ".", "7", "5", " ">>, <<"9", ".", "9", "6">> >>

HardToken(k) == HardTokenTable[((k - 1) % Len(HardTokenTable)) + 1]

\* "5, 7.25,2.75 ,9.96,...": n hard limits
HardList(n) == Join([k \in 1..n |-> HardToken(k)])

\* lists of 1..MaxKeys+1 hard limits; the empty field; "x"
HardFields ==
    {HardList(n) : n \in 1..(MaxKeys + 1)} \cup {<<>>, <<"x">>}

HourFields == {0, 144, 145}

(***************************************************************************)
(* validate_api_key                                                        *)
(***************************************************************************)
None == "None"

SiteIdAbort == "API key looks like a site ID"

DuplicateAbort == "Duplicate API key specified"

\* re.match(LIKE_SITE_ID, key)
LikeSiteId(key) ==
    /\ Len(key) = 19
    /\ \A k \in 1..19 :
          IF k \in {5, 10, 15} THEN key[k] = "-"
          ELSE key[k] \in LowerSet \cup DigitSet

ShapeEvent(index) == [op |-> "shape", index |-> index, i |-> 0]

CompareEvent(index, i) == [op |-> "compare", index |-> index, i |-> i]

RECURSIVE KeyLoopDupFirst(_, _, _, _)
KeyLoopDupFirst(api_key, index, i, log) ==
    IF index > Len(api_key) THEN [abort |-> None, log |-> log]
    ELSE IF i = 0 THEN KeyLoopDupFirst(api_key, index, 1, log)
    ELSE IF i > Len(api_key) THEN
        IF LikeSiteId(api_key[index])
        THEN [abort |-> SiteIdAbort, log |-> Append(log, ShapeEvent(index))]
        ELSE KeyLoopDupFirst(api_key, index + 1, 0, Append(log, ShapeEvent(index)))
    ELSE IF index # i THEN
        IF api_key[index] = api_key[i]
        THEN [abort |-> DuplicateAbort, log |-> Append(log, CompareEvent(index, i))]
        ELSE KeyLoopDupFirst(api_key, index, i + 1, Append(log, CompareEvent(index, i)))
    ELSE KeyLoopDupFirst(api_key, index, i + 1, log)

RECURSIVE KeyLoopAdjacent(_, _, _, _)
KeyLoopAdjacent(api_key, index, i, log) ==
    IF index > Len(api_key) THEN [abort |-> None, log |-> log]
    ELSE IF i = 0 THEN
        IF LikeSiteId(api_key[index])
        THEN [abort |-> SiteIdAbort, log |-> Append(log, ShapeEvent(index))]
        ELSE KeyLoopAdjacent(api_key, index, 1, Append(log, ShapeEvent(index)))
    ELSE IF i > Len(api_key) THEN KeyLoopAdjacent(api_key, index + 1, 0, log)
    ELSE IF i = index + 1 THEN
        IF api_key[index] = api_key[i]
        THEN [abort |-> DuplicateAbort, log |-> Append(log, CompareEvent(index, i))]
        ELSE KeyLoopAdjacent(api_key, index, i + 1, Append(log, CompareEvent(index, i)))
    ELSE KeyLoopAdjacent(api_key, index, i + 1, log)

RECURSIVE KeyLoop(_, _, _, _)
\* The two nested loops over the key list: i = 0 is the top of the outer
\* loop's body (the shape test), i >= 1 the inner loop's position.  log is
\* the order of the shape tests and of the comparisons key == k made.
KeyLoop(api_key, index, i, log) ==
    IF index > Len(api_key) THEN [abort |-> None, log |-> log]
    ELSE IF i = 0 THEN
        IF LikeSiteId(api_key[index])
        THEN [abort |-> SiteIdAbort, log |-> Append(log, ShapeEvent(index))]
        ELSE KeyLoop(api_key, index, 1, Append(log, ShapeEvent(index)))
    ELSE IF i > Len(api_key) THEN KeyLoop(api_key, index + 1, 0, log)
    ELSE IF index # i THEN
        IF api_key[index] = api_key[i]
        THEN [abort |-> DuplicateAbort, log |-> Append(log, CompareEvent(index, i))]
        ELSE KeyLoop(api_key, index, i + 1, Append(log, CompareEvent(index, i)))
    ELSE KeyLoop(api_key, index, i + 1, log)

\* the key list of a key field: spaces removed, split, empty tokens dropped
KeyTokens(field) == DropEmpty(Split(RemoveSpaces(field)))

\* what validate_api_key returns after the loops
KeyAnswer(api_key, scan) ==
    IF scan.abort # None
    THEN [api_key |-> <<>>, api_count |-> 0, abort |-> scan.abort, log |-> scan.log]
    ELSE [api_key |-> Join(api_key), api_count |-> Len(api_key),
          abort |-> None, log |-> scan.log]

KeyScan(api_key) == KeyAnswer(api_key, KeyLoop(api_key, 1, 0, <<>>))

validate_api_key_of(field) == KeyScan(KeyTokens(field))

\* validate_api_key is pure: its answers on the key fields drawn are computed
\* once
KeyAnswers == [field \in KeyFields |-> validate_api_key_of(field)]

validate_api_key(field) ==
    IF field \in KeyFields THEN KeyAnswers[field] ELSE validate_api_key_of(field)

(***************************************************************************)
(* validate_api_limit and the hard-limit validation                        *)
(***************************************************************************)
NotNumberAbort == "API limit is not a number"

BelowOneAbort == "API limit must be one or greater"

TooManyQuotaAbort == "There are more API limit counts entered than keys"

HardNotNumberAbort == "Hard limit is not a positive number"

TooManyHardAbort == "There are more hard limits entered than keys"

HourSensorAbort == "Custom sensor not between 1 and 144"

\* the quota list of a quota field: spaces removed, split, empty tokens dropped
QuotaTokens(field) == DropEmpty(Split(RemoveSpaces(field)))

RECURSIVE QuotaLoop(_, _)
\* for q in api_quota: the first token that fails decides; int(q) raises
\* ValueError on a numeric character that is no decimal digit
QuotaLoop(api_quota, k) ==
    IF k > Len(api_quota) THEN [abort |-> None, raised |-> FALSE]
    ELSE IF ~IsNumeric(api_quota[k]) THEN [abort |-> NotNumberAbort, raised |-> FALSE]
    ELSE IF ParseRaises(api_quota[k]) THEN [abort |-> None, raised |-> TRUE]
    ELSE IF IntOf(api_quota[k]) < 1 THEN [abort |-> BelowOneAbort, raised |-> FALSE]
    ELSE QuotaLoop(api_quota, k + 1)

QuotaAnswerAtLeast(api_quota, loop, api_count) ==
    IF loop.raised \/ loop.abort # None
    THEN [value |-> <<>>, abort |-> loop.abort, raised |-> loop.raised]
    ELSE IF Len(api_quota) >= api_count
    THEN [value |-> <<>>, abort |-> TooManyQuotaAbort, raised |-> FALSE]
    ELSE [value |-> Join(api_quota), abort |-> None, raised |-> FALSE]

\* what validate_api_limit returns after the loop: the count is compared
\* once every token has passed
QuotaAnswer(api_quota, loop, api_count) ==
    IF loop.raised \/ loop.abort # None
    THEN [value |-> <<>>, abort |-> loop.abort, raised |-> loop.raised]
    ELSE IF Len(api_quota) > api_count
    THEN [value |-> <<>>, abort |-> TooManyQuotaAbort, raised |-> FALSE]
    ELSE [value |-> Join(api_quota), abort |-> None, raised |-> FALSE]

QuotaScan(api_quota, api_count) ==
    QuotaAnswer(api_quota, QuotaLoop(api_quota, 1), api_count)

validate_api_limit_of(field, api_count) == QuotaScan(QuotaTokens(field), api_count)

\* validate_api_limit is pure: its answers on the quota fields drawn are
\* computed once
QuotaAnswers ==
    [x \in QuotaFields \X (0..MaxKeys) |-> validate_api_limit_of(x[1], x[2])]

validate_api_limit(field, api_count) ==
    IF field \in QuotaFields /\ api_count \in 0..MaxKeys
    THEN QuotaAnswers[<<field, api_count>>]
    ELSE validate_api_limit_of(field, api_count)

\* the hard-limit list of a hard-limit field: split, each token stripped;
\* empty tokens are kept
StripEach(toks) == [k \in 1..Len(toks) |-> Strip(toks[k])]

HardTokens(field) == StripEach(Split(field))

RECURSIVE HardLoop(_, _, _)
\* for h in hard_limit.split(","): the first token that is not digits with at
\* most one point aborts; float(h) raises ValueError on a digit character
\* that is no decimal digit
HardLoop(toks, k, to_set) ==
    IF k > Len(toks) THEN [to_set |-> to_set, abort |-> None, raised |-> FALSE]
    ELSE IF ~IsDigit(RemoveFirstDot(toks[k]))
    THEN [to_set |-> <<>>, abort |-> HardNotNumberAbort, raised |-> FALSE]
    ELSE IF ParseRaises(toks[k]) THEN [to_set |-> <<>>, abort |-> None, raised |-> TRUE]
    ELSE HardLoop(toks, k + 1, Append(to_set, FormatOneDecimal(toks[k])))

\* what the hard-limit validation leaves after the loop
HardAnswer(loop, api_count) ==
    IF loop.raised \/ loop.abort # None
    THEN [value |-> <<>>, abort |-> loop.abort, raised |-> loop.raised]
    ELSE IF Len(loop.to_set) > api_count
    THEN [value |-> <<>>, abort |-> TooManyHardAbort, raised |-> FALSE]
    ELSE [value |-> Join(loop.to_set), abort |-> None, raised |-> FALSE]

\* lines 246-257 of async_step_init
validate_hard_limit_of(field, api_count) ==
    HardAnswer(HardLoop(HardTokens(field), 1, <<>>), api_count)

\* the same, its answers on the hard-limit fields drawn computed once
HardAnswers ==
    [x \in HardFields \X (0..MaxKeys) |-> validate_hard_limit_of(x[1], x[2])]

validate_hard_limit(field, api_count) ==
    IF field \in HardFields /\ api_count \in 0..MaxKeys
    THEN HardAnswers[<<field, api_count>>]
    ELSE validate_hard_limit_of(field, api_count)

(***************************************************************************)
(* Option names and option mappings                                        *)
(***************************************************************************)
CONF_API_KEY == "CONF_API_KEY"

API_QUOTA == "API_QUOTA"

AUTO_UPDATE == "AUTO_UPDATE"

CUSTOM_HOUR_SENSOR == "CUSTOM_HOUR_SENSOR"

HARD_LIMIT_API == "HARD_LIMIT_API"

KEY_ESTIMATE == "KEY_ESTIMATE"

BRK_ESTIMATE == "BRK_ESTIMATE"

BRK_ESTIMATE10 == "BRK_ESTIMATE10"

BRK_ESTIMATE90 == "BRK_ESTIMATE90"

BRK_SITE == "BRK_SITE"

BRK_HALFHOURLY == "BRK_HALFHOURLY"

BRK_HOURLY == "BRK_HOURLY"

BRK_SITE_DETAILED == "BRK_SITE_DETAILED"

SITE_DAMP == "SITE_DAMP"

CONFIG_DAMP == "CONFIG_DAMP"

\* range(24)
NumDamp == 24

\* f"damp{factor:02d}" for factor in range(24)
DampNames == <<
    "damp00", "damp01", "damp02", "damp03", "damp04", "damp05",
    "damp06", "damp07", "damp08", "damp09", "damp10", "damp11",
    "damp12", "damp13", "damp14", "damp15", "damp16", "damp17",
    "damp18", "damp19", "damp20", "damp21", "damp22", "damp23">>

DampName(factor) == DampNames[factor + 1]

DampNameSet == {DampName(factor) : factor \in 0..(NumDamp - 1)}

\* mapping[key] = value
Put(mapping, key, value) == (key :> value) @@ mapping

\* the breakdown toggles, in the order async_step_init copies them
Toggles == <<BRK_ESTIMATE, BRK_ESTIMATE10, BRK_ESTIMATE90, BRK_HALFHOURLY,
             BRK_HOURLY, BRK_SITE, BRK_SITE_DETAILED>>

(***************************************************************************)
(* Flow results                                                            *)
(***************************************************************************)
NoResult == [type |-> "none", flow |-> "", step_id |-> "", reason |-> "",
             errors |-> "", offers |-> "", suggested |-> <<>>]

AbortResult(flow, reason) == [NoResult EXCEPT !.type = "abort", !.flow = flow, !.reason = reason]

CreateEntryResult(flow) == [NoResult EXCEPT !.type = "create_entry", !.flow = flow]

\* an exception that leaves the handler: the flow manager ends the flow
RaisedResult(flow, exc) == [NoResult EXCEPT !.type = "raised", !.flow = flow, !.reason = exc]

FormResult(flow, step_id, errors, offers, suggested) ==
    [NoResult EXCEPT !.type = "form", !.flow = flow, !.step_id = step_id,
                     !.errors = errors, !.offers = offers, !.suggested = suggested]

(***************************************************************************)
(* SolcastSolarFlowHandler.async_step_user                                 *)
(***************************************************************************)
\* options | damp of a successful first setup
SetupOptions(api_key, api_quota, auto_update) ==
    LET options_ == [CONF_API_KEY |-> api_key,
                     API_QUOTA |-> api_quota,
                     AUTO_UPDATE |-> auto_update,
                     CUSTOM_HOUR_SENSOR |-> 1,
                     HARD_LIMIT_API |-> <<"1", "0", "0", ".", "0">>,
                     KEY_ESTIMATE |-> "estimate",
                     BRK_ESTIMATE |-> TRUE,
                     BRK_ESTIMATE10 |-> TRUE,
                     BRK_ESTIMATE90 |-> TRUE,
                     BRK_SITE |-> TRUE,
                     BRK_HALFHOURLY |-> TRUE,
                     BRK_HOURLY |-> TRUE,
                     BRK_SITE_DETAILED |-> FALSE]
        damp     == [name \in DampNameSet |-> 10]
    IN  damp @@ options_

\* user_input is <<>> (None) or <<mapping>>
async_step_user(current_entries, user_input) ==
    IF current_entries # <<>>
    THEN [result |-> AbortResult("config", "single_instance_allowed"),
          entries |-> current_entries]
    ELSE IF user_input # <<>>
    THEN LET key   == validate_api_key(user_input[1][CONF_API_KEY])
             quota == validate_api_limit(user_input[1][API_QUOTA], key.api_count)
         IN  IF key.abort # None
             THEN [result |-> AbortResult("config", key.abort), entries |-> current_entries]
             ELSE IF quota.raised
             THEN [result |-> RaisedResult("config", "ValueError"),
                   entries |-> current_entries]
             ELSE IF quota.abort # None
             THEN [result |-> AbortResult("config", quota.abort),
                   entries |-> current_entries]
             ELSE [result |-> CreateEntryResult("config"),
                   entries |-> <<SetupOptions(key.api_key, quota.value,
                                              DigitVal(user_input[1][AUTO_UPDATE]))>>]
    ELSE [result |-> FormResult("config", "user", "", "", <<>>),
          entries |-> current_entries]

(***************************************************************************)
(* SolcastSolarOptionFlowHandler                                           *)
(***************************************************************************)
\* the options async_step_init subscripts to build its form (lines 303-322)
InitFormReads == {API_QUOTA, AUTO_UPDATE, CUSTOM_HOUR_SENSOR, BRK_ESTIMATE10,
                  BRK_ESTIMATE, BRK_ESTIMATE90, BRK_SITE, BRK_HALFHOURLY,
                  BRK_HOURLY, BRK_SITE_DETAILED, SITE_DAMP}

\* the form of the main step: it offers CONFIG_DAMP while site dampening is
\* off and SITE_DAMP while it is on; a missing option is a KeyError
ShowInitForm(options_, errors) ==
    IF ~(InitFormReads \subseteq DOMAIN options_)
    THEN RaisedResult("options", "KeyError")
    ELSE FormResult("options", "init", errors,
                    IF ~options_[SITE_DAMP] THEN CONFIG_DAMP ELSE SITE_DAMP, <<>>)

RECURSIVE DampAssignShort(_, _, _)
DampAssignShort(all_config_data, user_input, factor) ==
    IF factor = NumDamp - 1 THEN [all_config_data |-> all_config_data, ok |-> TRUE]
    ELSE IF DampName(factor) \notin DOMAIN user_input
    THEN [all_config_data |-> all_config_data, ok |-> FALSE]
    ELSE DampAssignShort(Put(all_config_data, DampName(factor),
                             user_input[DampName(factor)]),
                         user_input, factor + 1)

RECURSIVE DampAssign(_, _, _)
\* for factor in range(24): all_config_data[name] = user_input[name]; a
\* missing slot is a KeyError that leaves the slots before it assigned
DampAssign(all_config_data, user_input, factor) ==
    IF factor = NumDamp THEN [all_config_data |-> all_config_data, ok |-> TRUE]
    ELSE IF DampName(factor) \notin DOMAIN user_input
    THEN [all_config_data |-> all_config_data, ok |-> FALSE]
    ELSE DampAssign(Put(all_config_data, DampName(factor), user_input[DampName(factor)]),
                    user_input, factor + 1)

\* options_ is self._options, draft_ self._all_config_data (<<>>: None); the
\* answer holds both after the call, the result, and the options handed to
\* async_update_entry (<<>>: none).  A draft that is not None is assigned in
\* place.
async_step_dampen(options_, draft_, user_input) ==
    LET all_config_data == IF draft_ = <<>> THEN options_ ELSE draft_[1]
        keep(d) == IF draft_ = <<>> THEN draft_ ELSE <<d>>
    IN  IF ~(DampNameSet \subseteq DOMAIN all_config_data)
        THEN [result |-> RaisedResult("options", "KeyError"), options |-> options_,
              draft |-> draft_, update |-> <<>>]
        ELSE LET extant == [name \in DampNameSet |-> all_config_data[name]]
             IN  IF user_input # <<>>
                 THEN LET assigned == DampAssign(all_config_data, user_input[1], 0)
                          final    == Put(assigned.all_config_data, SITE_DAMP, FALSE)
                      IN  IF assigned.ok
                          THEN [result |-> CreateEntryResult("options"),
                                options |-> options_, draft |-> keep(final),
                                update |-> <<final>>]
                          ELSE [result |-> FormResult("options", "dampen", "unknown",
                                                      "", extant),
                                options |-> options_,
                                draft |-> keep(assigned.all_config_data),
                                update |-> <<>>]
                 ELSE [result |-> FormResult("options", "dampen", "", "", extant),
                       options |-> options_, draft |-> draft_, update |-> <<>>]

\* the assignments of lines 231-273 onto all_config_data, given the
\* validated fields
MergeOnto(all_config_data, user_input, api_key, api_quota, hard_limit) ==
    LET c0  == all_config_data
        c1  == Put(c0, CONF_API_KEY, api_key)
        c2  == Put(c1, API_QUOTA, api_quota)
        c3  == Put(c2, CUSTOM_HOUR_SENSOR, user_input[CUSTOM_HOUR_SENSOR])
        c4  == Put(c3, HARD_LIMIT_API, hard_limit)
        c5  == IF SITE_DAMP \in DOMAIN user_input
               THEN Put(c4, SITE_DAMP, user_input[SITE_DAMP]) ELSE c4
        c6  == Put(c5, AUTO_UPDATE, DigitVal(user_input[AUTO_UPDATE]))
        c7  == Put(c6, KEY_ESTIMATE, user_input[KEY_ESTIMATE])
        c8  == Put(c7, BRK_ESTIMATE, user_input[BRK_ESTIMATE])
        c9  == Put(c8, BRK_ESTIMATE10, user_input[BRK_ESTIMATE10])
        c10 == Put(c9, BRK_ESTIMATE90, user_input[BRK_ESTIMATE90])
        c11 == Put(c10, BRK_HALFHOURLY, user_input[BRK_HALFHOURLY])
        c12 == Put(c11, BRK_HOURLY, user_input[BRK_HOURLY])
        c13 == Put(c12, BRK_SITE, user_input[BRK_SITE])
    IN  Put(c13, BRK_SITE_DETAILED, user_input[BRK_SITE_DETAILED])

EmptyMapping == [name \in {} |-> None]

InitMergeFresh(options_, user_input, api_key, api_quota, hard_limit) ==
    MergeOnto(EmptyMapping, user_input, api_key, api_quota, hard_limit)

\* all_config_data = {**self._options}, then the assignments
InitMerge(options_, user_input, api_key, api_quota, hard_limit) ==
    MergeOnto(options_, user_input, api_key, api_quota, hard_limit)

\* an exception inside the try of async_step_init: errors["base"] = str(e),
\* and the form is built again
InitError(options_, draft_, exc) ==
    [result |-> ShowInitForm(options_, exc), options |-> options_,
     draft |-> draft_, update |-> <<>>]

InitAbort(options_, draft_, reason) ==
    [result |-> AbortResult("options", reason), options |-> options_,
     draft |-> draft_, update |-> <<>>]

\* the call of async_step_dampen() from inside the try: what it raises is
\* caught with the rest
InitDampen(options_, all_config_data, dampen) ==
    IF dampen.result.type = "raised"
    THEN InitError(options_, <<all_config_data>>, dampen.result.reason)
    ELSE dampen

InitFinishAlwaysDampen(options_, inp, all_config_data) ==
    InitDampen(options_, all_config_data,
               async_step_dampen(options_, <<all_config_data>>, <<>>))

InitFinishPersistFirst(options_, inp, all_config_data) ==
    IF CONFIG_DAMP \in DOMAIN inp /\ inp[CONFIG_DAMP]
    THEN [InitDampen(options_, all_config_data,
                     async_step_dampen(options_, <<all_config_data>>, <<>>))
             EXCEPT !.update = <<all_config_data>>]
    ELSE [result |-> CreateEntryResult("options"), options |-> options_,
          draft |-> <<all_config_data>>, update |-> <<all_config_data>>]

\* lines 275-282: the draft is kept, then the dampening step is entered on
\* request, or the entry updated
InitFinish(options_, inp, all_config_data) ==
    IF CONFIG_DAMP \in DOMAIN inp /\ inp[CONFIG_DAMP]
    THEN InitDampen(options_, all_config_data,
                    async_step_dampen(options_, <<all_config_data>>, <<>>))
    ELSE [result |-> CreateEntryResult("options"), options |-> options_,
          draft |-> <<all_config_data>>, update |-> <<all_config_data>>]

\* lines 229-282, given what the validators answered
InitSubmit(options_, draft_, inp, key, quota, hard) ==
    IF key.abort # None THEN InitAbort(options_, draft_, key.abort)
    ELSE IF quota.raised THEN InitError(options_, draft_, "ValueError")
    ELSE IF quota.abort # None THEN InitAbort(options_, draft_, quota.abort)
    ELSE IF inp[CUSTOM_HOUR_SENSOR] < 1 \/ inp[CUSTOM_HOUR_SENSOR] > 144
    THEN InitAbort(options_, draft_, HourSensorAbort)
    ELSE IF hard.raised THEN InitError(options_, draft_, "ValueError")
    ELSE IF hard.abort # None THEN InitAbort(options_, draft_, hard.abort)
    ELSE InitFinish(options_, inp,
                    InitMerge(options_, inp, key.api_key, quota.value, hard.value))

InitValidate(options_, draft_, inp, key) ==
    InitSubmit(options_, draft_, inp, key,
               validate_api_limit(inp[API_QUOTA], key.api_count),
               validate_hard_limit(inp[HARD_LIMIT_API], key.api_count))

\* user_input is <<>> (None) or <<mapping>>
async_step_init(options_, draft_, user_input) ==
    IF user_input = <<>>
    THEN [result |-> ShowInitForm(options_, ""), options |-> options_,
          draft |-> draft_, update |-> <<>>]
    ELSE InitValidate(options_, draft_, user_input[1],
                      validate_api_key(user_input[1][CONF_API_KEY]))

(***************************************************************************)
(* The submissions drawn                                                   *)
(***************************************************************************)
\* the fields async_step_init copies unvalidated
ProfileA ==
    [AUTO_UPDATE |-> "0", KEY_ESTIMATE |-> "estimate10",
     BRK_ESTIMATE |-> FALSE, BRK_ESTIMATE10 |-> TRUE, BRK_ESTIMATE90 |-> FALSE,
     BRK_SITE |-> TRUE, BRK_HALFHOURLY |-> FALSE, BRK_HOURLY |-> TRUE,
     BRK_SITE_DETAILED |-> TRUE]

ProfileB ==
    [AUTO_UPDATE |-> "2", KEY_ESTIMATE |-> "estimate90",
     BRK_ESTIMATE |-> TRUE, BRK_ESTIMATE10 |-> FALSE, BRK_ESTIMATE90 |-> TRUE,
     BRK_SITE |-> FALSE, BRK_HALFHOURLY |-> TRUE, BRK_HOURLY |-> FALSE,
     BRK_SITE_DETAILED |-> FALSE]

\* the hour-sensor value, the copied fields and the flag of one submission:
\* an hour-sensor value in range with every choice of the rest, one out of
\* range with one choice of the rest
RestFields ==
    ({h \in HourFields : 1 <= h /\ h <= 144} \X {ProfileA, ProfileB} \X BOOLEAN)
        \cup ({h \in HourFields : h < 1 \/ h > 144} \X {ProfileA} \X {TRUE})

\* what the first-setup form submits
UserInputs ==
    {[CONF_API_KEY |-> k, API_QUOTA |-> q, AUTO_UPDATE |-> a] :
        k \in KeyFields, q \in QuotaFields, a \in {"0", "1", "2"}}

\* what the main form submits: every field of its schema, the optional ones
\* filled by their defaults, and the one flag the form offers
InitInputs(offers) ==
    {(offers :> r[3]) @@ r[2] @@
        [CONF_API_KEY |-> k, API_QUOTA |-> q, CUSTOM_HOUR_SENSOR |-> r[1],
         HARD_LIMIT_API |-> l] :
        k \in KeyFields, q \in QuotaFields, l \in HardFields, r \in RestFields}

FactorOf(name) == CHOOSE factor \in 0..(NumDamp - 1) : DampName(factor) = name

\* 24 factors: 0.0, 0.1, ..., 1.0, 0.0, ... by hour
DampPatterns == {[name \in DampNameSet |-> FactorOf(name) % 11]}

\* what reaches async_step_dampen: the 24 factors, or a mapping of factors
\* 0.5 that lacks the slot of hour 12 (the handler takes any mapping)
DampInputs ==
    DampPatterns \cup {[name \in DampNameSet \ {DampName(12)} |-> 5]}

\* the entry of an installation set up before the flow is opened: the
\* options of a first setup, and the site-dampening flag the integration
\* keeps in them
ExistingOptions ==
    {Put(SetupOptions(KeyList(1), QuotaList(1), 1), SITE_DAMP, b) : b \in BOOLEAN}

NoSubmission == [step |-> "none", config_damp |-> FALSE, damp |-> <<>>, main |-> <<>>]

KvIdle == [field |-> <<>>, out |-> <<>>]

LvIdle == [kind |-> "none", field |-> <<>>, api_count |-> 0, out |-> <<>>]

(***************************************************************************)
(* The flows                                                               *)
(***************************************************************************)
Init ==
    /\ entries \in {<<>>} \cup {<<o>> : o \in ExistingOptions}
    /\ step = "none"
    /\ options = <<>>
    /\ draft = <<>>
    /\ result = NoResult
    /\ submitted = NoSubmission
    /\ kv = KvIdle
    /\ lv = LvIdle

\* the flow manager ends a flow on every result but a form
Ended(r) == r.type # "form"

\* the user opens the first-setup flow: async_step_user(None)
StartUserFlow ==
    /\ step = "none"
    /\ LET r == async_step_user(entries, <<>>)
       IN  /\ result' = r.result
           /\ entries' = r.entries
           /\ step' = IF Ended(r.result) THEN "none" ELSE "user"
    /\ options' = <<>>
    /\ draft' = <<>>
    /\ submitted' = NoSubmission
    /\ UNCHANGED <<kv, lv>>

\* the user submits the first-setup form
SubmitUser ==
    /\ step = "user"
    /\ \E user_input \in UserInputs :
          LET r == async_step_user(entries, <<user_input>>)
          IN  /\ result' = r.result
              /\ entries' = r.entries
              /\ step' = IF Ended(r.result) THEN "none" ELSE "user"
              /\ submitted' = [NoSubmission EXCEPT !.step = "user"]
    /\ UNCHANGED <<options, draft, kv, lv>>

\* the user opens the options flow: __init__(config_entry), async_step_init(None)
StartOptionsFlow ==
    /\ step = "none"
    /\ entries # <<>>
    /\ LET r == async_step_init(entries[1], <<>>, <<>>)
       IN  /\ result' = r.result
           /\ step' = IF Ended(r.result) THEN "none" ELSE "init"
           /\ options' = IF Ended(r.result) THEN <<>> ELSE <<r.options>>
           /\ draft' = IF Ended(r.result) THEN <<>> ELSE r.draft
    /\ submitted' = NoSubmission
    /\ UNCHANGED <<entries, kv, lv>>

\* what a step of the options flow leaves: the handler's fields while the
\* flow goes on, the entry's options replaced by async_update_entry
OptionsStep(r, sub) ==
    /\ result' = r.result
    /\ entries' = IF r.update # <<>> THEN r.update ELSE entries
    /\ step' = IF Ended(r.result) THEN "none" ELSE r.result.step_id
    /\ options' = IF Ended(r.result) THEN <<>> ELSE <<r.options>>
    /\ draft' = IF Ended(r.result) THEN <<>> ELSE r.draft
    /\ submitted' = sub
    /\ UNCHANGED <<kv, lv>>

\* the user submits the main form
SubmitInit ==
    /\ step = "init"
    /\ \E user_input \in InitInputs(result.offers) :
          LET r == async_step_init(options[1], draft, <<user_input>>)
          IN  OptionsStep(r, [step |-> "init",
                              config_damp |-> CONFIG_DAMP \in DOMAIN user_input
                                                /\ user_input[CONFIG_DAMP],
                              damp |-> <<>>,
                              main |-> r.draft])

\* the user submits the dampening form
SubmitDampen ==
    /\ step = "dampen"
    /\ \E user_input \in DampInputs :
          LET r == async_step_dampen(options[1], draft, <<user_input>>)
          IN  OptionsStep(r, [submitted EXCEPT !.step = "dampen",
                                               !.damp = <<user_input>>])

\* the user navigates away from a form
Abandon ==
    /\ step \in {"user", "init", "dampen"}
    /\ step' = "none"
    /\ options' = <<>>
    /\ draft' = <<>>
    /\ result' = NoResult
    /\ submitted' = NoSubmission
    /\ UNCHANGED <<entries, kv, lv>>

(***************************************************************************)
(* The validators alone, each applied to a field drawn                     *)
(***************************************************************************)
\* most tokens in a limit field drawn for the limit validators alone
MaxLimitTokens == 3

ListsOver(alphabet, most) == UNION {[1..n -> alphabet] : n \in 0..most}

\* a key, another key, a site ID, a blank
KeyAlphabet == {Key(1), Key(2), SiteId, <<" ">>}

\* "10", " 5", "0", "x", a superscript two, nothing
QuotaAlphabet == {<<"1", "0">>, <<" ", "5">>, <<"0">>, <<"x">>, <<Sup2>>, <<>>}

\* "5", " 7.25", "9.96 ", "1.2.3", "x", nothing
HardAlphabet == {<<"5">>, <<" ", "7", ".", "2", "5">>, <<"9", ".", "9", "6", " ">>,
                 <<"1", ".", "2", ".", "3">>, <<"x">>, <<>>}

WizardIdle ==
    /\ entries = <<>>
    /\ step = "none"
    /\ options = <<>>
    /\ draft = <<>>
    /\ result = NoResult
    /\ submitted = NoSubmission

InitKey ==
    /\ WizardIdle
    /\ kv \in {[field |-> Join(toks), out |-> <<>>] :
                  toks \in ListsOver(KeyAlphabet, MaxKeyTokens)}
    /\ lv = LvIdle

ApplyValidateKey ==
    /\ kv.out = <<>>
    /\ kv' = [kv EXCEPT !.out = <<validate_api_key(kv.field)>>]
    /\ UNCHANGED <<entries, step, options, draft, result, submitted, lv>>

SpecKey == InitKey /\ [][ApplyValidateKey]_vars

InitLimit ==
    /\ WizardIdle
    /\ kv = KvIdle
    /\ lv \in {[kind |-> "quota", field |-> Join(toks), api_count |-> n, out |-> <<>>] :
                  toks \in ListsOver(QuotaAlphabet, MaxLimitTokens), n \in 0..MaxKeys}
              \cup
              {[kind |-> "hard", field |-> Join(toks), api_count |-> n, out |-> <<>>] :
                  toks \in ListsOver(HardAlphabet, MaxLimitTokens), n \in 0..MaxKeys}

ApplyValidateLimit ==
    /\ lv.kind = "quota"
    /\ lv.out = <<>>
    /\ lv' = [lv EXCEPT !.out = <<validate_api_limit(lv.field, lv.api_count)>>]
    /\ UNCHANGED <<entries, step, options, draft, result, submitted, kv>>

ApplyValidateHard ==
    /\ lv.kind = "hard"
    /\ lv.out = <<>>
    /\ lv' = [lv EXCEPT !.out = <<validate_hard_limit(lv.field, lv.api_count)>>]
    /\ UNCHANGED <<entries, step, options, draft, result, submitted, kv>>

NextLimit == ApplyValidateLimit \/ ApplyValidateHard

SpecLimit == InitLimit /\ [][NextLimit]_vars

Next ==
    \/ StartUserFlow
    \/ SubmitUser
    \/ StartOptionsFlow
    \/ SubmitInit
    \/ SubmitDampen
    \/ Abandon

Spec == Init /\ [][Next]_vars

(***************************************************************************)
(* Properties of the options records                                       *)
(***************************************************************************)
\* the comma-separated tokens of a stored list
CommaTokens(text) == DropEmpty(Split(text))

EditFlow == step \in {"init", "dampen"}

\* the entry was handed a record by an options flow that ended in Done
EditDone == EditFlow /\ entries' # entries

\* the record passes the validation of the main step
ValidOptions(o) ==
    LET key == validate_api_key(o[CONF_API_KEY])
    IN  /\ key.abort = None
        /\ validate_api_limit(o[API_QUOTA], key.api_count).abort = None
        /\ ~validate_api_limit(o[API_QUOTA], key.api_count).raised
        /\ validate_hard_limit(o[HARD_LIMIT_API], key.api_count).abort = None
        /\ ~validate_hard_limit(o[HARD_LIMIT_API], key.api_count).raised
        /\ o[CUSTOM_HOUR_SENSOR] \in 1..144

\* C1: every record handed to the entry store has no more quota tokens and
\* no more hard-limit tokens than API keys.
C1_LimitsWithinKeys ==
    entries # <<>> =>
        /\ Len(CommaTokens(entries[1][API_QUOTA]))
              <= Len(CommaTokens(entries[1][CONF_API_KEY]))
        /\ Len(CommaTokens(entries[1][HARD_LIMIT_API]))
              <= Len(CommaTokens(entries[1][CONF_API_KEY]))

\* C2: while an options flow is in progress the entry's options are those
\* the flow started from; they change only on the step that ends the flow in
\* Done (or when a first setup creates the entry), and the record then
\* persisted passes validation.
C2_PersistOnlyAtDone ==
    /\ [](EditFlow => entries = options)
    /\ [][entries' # entries =>
            /\ step' = "none"
            /\ result'.type = "create_entry"
            /\ IF EditFlow
               THEN result'.flow = "options" /\ ValidOptions(entries'[1])
               ELSE step = "user" /\ entries = <<>>]_vars

\* a dampening submission failed: the entry is as the flow found it, though
\* the draft no longer is
C2_Witness ==
    /\ step = "dampen"
    /\ result.errors = "unknown"
    /\ entries = options
    /\ draft # submitted.main

\* the record a successful dampening submission persists: the main step's
\* draft with the 24 slots submitted and site dampening off
DampenExpected(main, damp) ==
    [name \in DOMAIN main \cup {SITE_DAMP} |->
        IF name \in DampNameSet THEN damp[name]
        ELSE IF name = SITE_DAMP THEN FALSE
        ELSE main[name]]

\* C3: a successful dampening submission persists the main step's draft with
\* damp00..damp23 set to the factors submitted and the site-dampening flag
\* false, every other field as the main step left it.
C3_DampenPersistsDraft ==
    (step = "none" /\ result.type = "create_entry" /\ submitted.step = "dampen") =>
        entries = <<DampenExpected(submitted.main[1], submitted.damp[1])>>

C3_Witness ==
    /\ step = "none"
    /\ result.type = "create_entry"
    /\ submitted.step = "dampen"
    /\ entries[1][CONF_API_KEY] = KeyList(2)
    /\ entries[1][DampName(5)] = 5
    /\ entries[1][DampName(23)] = 1

\* the fields a main-step submission assigns, given the flag its form offered
MainFields(offers) ==
    {CONF_API_KEY, API_QUOTA, CUSTOM_HOUR_SENSOR, HARD_LIMIT_API, AUTO_UPDATE,
     KEY_ESTIMATE, BRK_ESTIMATE, BRK_ESTIMATE10, BRK_ESTIMATE90, BRK_HALFHOURLY,
     BRK_HOURLY, BRK_SITE, BRK_SITE_DETAILED}
        \cup (IF offers = SITE_DAMP THEN {SITE_DAMP} ELSE {})

\* the submissions of the fields drawn that pass the validators
ValidFields ==
    {f \in KeyFields \X QuotaFields \X HardFields :
        /\ validate_api_key(f[1]).abort = None
        /\ validate_api_limit(f[2], validate_api_key(f[1]).api_count).abort = None
        /\ ~validate_api_limit(f[2], validate_api_key(f[1]).api_count).raised
        /\ validate_hard_limit(f[3], validate_api_key(f[1]).api_count).abort = None}

ValidInitInputs(offers) ==
    {(offers :> r[3]) @@ r[2] @@
        [CONF_API_KEY |-> f[1], API_QUOTA |-> f[2], CUSTOM_HOUR_SENSOR |-> r[1],
         HARD_LIMIT_API |-> f[3]] :
        f \in ValidFields, r \in {x \in RestFields : x[1] \in 1..144}}

\* what the dampening step persists after a main step, if it is entered
EditDampen(main, damp) ==
    IF main.result.type = "form" /\ main.result.step_id = "dampen"
    THEN async_step_dampen(main.options, main.draft, <<damp>>).update
    ELSE <<>>

\* the record one run of the options flow persists (<<>>: none)
EditOnce(o, inp, damp) ==
    IF async_step_init(o, <<>>, <<inp>>).update # <<>>
    THEN async_step_init(o, <<>>, <<inp>>).update
    ELSE EditDampen(async_step_init(o, <<>>, <<inp>>), damp)

EditTwice(once, inp, damp) ==
    once # <<>> => EditOnce(once[1], inp, damp) = once

\* C7: the record an options flow persists keeps every key of the record it
\* replaces, and the value of every key the submission did not assign; the
\* handler's view of the stored record does not change during the flow; and
\* a valid submission applied to its own outcome persists the same record.
C7_MergeOntoExisting ==
    /\ [][EditDone =>
            /\ DOMAIN entries[1] \subseteq DOMAIN entries'[1]
            /\ step = "init" =>
                  \A name \in DOMAIN entries[1] \ MainFields(result.offers) :
                      entries'[1][name] = entries[1][name]
            /\ step = "dampen" =>
                  \A name \in DOMAIN entries[1] \ (MainFields(CONFIG_DAMP) \cup DampNameSet) :
                      entries'[1][name] = entries[1][name]]_vars
    /\ [][EditFlow /\ step' \in {"init", "dampen"} => options' = options]_vars
    /\ [](step = "init" =>
            \A inp \in ValidInitInputs(result.offers), damp \in DampPatterns :
                EditTwice(EditOnce(options[1], inp, damp), inp, damp))

\* a main-step-only edit changed the keys and kept dampening factors that
\* an earlier edit had set
C7_Witness ==
    /\ step = "none"
    /\ result.type = "create_entry"
    /\ submitted.step = "init"
    /\ entries[1][CONF_API_KEY] = KeyList(2)
    /\ entries[1][DampName(5)] = 5

\* C8: the main step goes to the dampening step only on a valid submission
\* whose CONFIG_DAMP flag is set, and straight to Done with the merged record
\* persisted on every other valid one; the flow runs MainStep -> Done or
\* MainStep -> DampenStep -> Done.
C8_DampenOnlyOnRequest ==
    [][/\ (step = "init" /\ submitted'.step = "init") =>
            \/ result'.type = "abort" /\ step' = "none" /\ entries' = entries
            \/ /\ result'.type = "form"
               /\ result'.step_id = "init"
               /\ result'.errors # ""
               /\ entries' = entries
            \/ /\ result'.type = "form"
               /\ result'.step_id = "dampen"
               /\ result'.errors = ""
               /\ step' = "dampen"
               /\ submitted'.config_damp
               /\ ValidOptions(draft'[1])
               /\ entries' = entries
            \/ /\ result'.type = "create_entry"
               /\ step' = "none"
               /\ ~submitted'.config_damp
               /\ entries' = submitted'.main
               /\ ValidOptions(entries'[1])
       /\ step' = "dampen" => step \in {"init", "dampen"}
       /\ step = "dampen" => step' \in {"dampen", "none"}
       /\ (step = "dampen" /\ result'.type = "create_entry") => step' = "none"]_vars

C8_Witness ==
    /\ step = "dampen"
    /\ submitted.step = "init"
    /\ submitted.config_damp
    /\ result.step_id = "dampen"

\* C9: a dampening submission that fails leaves the pending draft as it was.
C9_FailedDampenAppliesNothing ==
    [][(step = "dampen" /\ step' = "dampen" /\ result'.errors = "unknown")
          => draft' = draft]_vars

\* the options the options flow reads from the stored record
EditReads ==
    InitFormReads \cup {CONF_API_KEY, KEY_ESTIMATE, HARD_LIMIT_API} \cup DampNameSet

\* C10: the record a first setup creates holds every option the options flow
\* reads to show its forms.
C10_SetupRecordReadable ==
    (result.type = "create_entry" /\ result.flow = "config") =>
        EditReads \subseteq DOMAIN entries[1]

(***************************************************************************)
(* Properties of the validators                                            *)
(***************************************************************************)
KvKeys == KeyTokens(kv.field)

HasDuplicate(keys) == \E a, b \in 1..Len(keys) : a # b /\ keys[a] = keys[b]

Duplicated(keys, a) == \E b \in 1..Len(keys) : a # b /\ keys[a] = keys[b]

\* the first key, in order, that occurs again elsewhere
FirstDuplicated(keys) ==
    CHOOSE a \in 1..Len(keys) :
        Duplicated(keys, a) /\ \A c \in 1..(a - 1) : ~Duplicated(keys, c)

SiteShaped(keys) == {c \in 1..Len(keys) : LikeSiteId(keys[c])}

\* C4 as stated: a key list with a duplicate is rejected with the
\* duplicate-key reason, whatever its other tokens are.
C4_DuplicateAlwaysDuplicateReason ==
    (kv.out # <<>> /\ HasDuplicate(KvKeys)) => kv.out[1].abort = DuplicateAbort

\* C4, amended: a key list with a duplicate is always rejected; the reason
\* is the duplicate-key reason unless a site-ID-shaped key stands at or
\* before the first duplicated key, and then it is the site-ID reason.
C4_DuplicateRejected ==
    (kv.out # <<>> /\ HasDuplicate(KvKeys)) =>
        IF SiteShaped(KvKeys) \cap 1..FirstDuplicated(KvKeys) = {}
        THEN kv.out[1].abort = DuplicateAbort
        ELSE kv.out[1].abort = SiteIdAbort

\* a duplicate and a site ID after it: the duplicate reason
C4_Witness ==
    /\ kv.out # <<>>
    /\ HasDuplicate(KvKeys)
    /\ SiteShaped(KvKeys) # {}
    /\ kv.out[1].abort = DuplicateAbort

KvLog == kv.out[1].log

ShapeTestedBefore(log, e, c) ==
    \E d \in 1..(e - 1) : log[d].op = "shape" /\ log[d].index = c

\* C5 as stated: a key list with a site-ID-shaped key is rejected, and the
\* shape test of a site-ID-shaped key is decided before that key takes part
\* in any comparison.
C5_ShapeBeforeAnyComparison ==
    (kv.out # <<>> /\ SiteShaped(KvKeys) # {}) =>
        /\ kv.out[1].abort # None
        /\ \A e \in 1..Len(KvLog) :
              KvLog[e].op = "compare" =>
                  \A c \in {KvLog[e].index, KvLog[e].i} \cap SiteShaped(KvKeys) :
                      ShapeTestedBefore(KvLog, e, c)

\* C5, amended: a key list with a site-ID-shaped key is rejected; a key is
\* shape-tested before it is the key whose duplicates are looked for, so no
\* site-ID-shaped key ever is that key, and no duplicate-key rejection comes
\* from a comparison with a site-ID-shaped key on either side.
C5_ShapeBeforeOwnComparisons ==
    (kv.out # <<>> /\ SiteShaped(KvKeys) # {}) =>
        /\ kv.out[1].abort # None
        /\ \A e \in 1..Len(KvLog) :
              KvLog[e].op = "compare" =>
                  /\ ShapeTestedBefore(KvLog, e, KvLog[e].index)
                  /\ KvLog[e].index \notin SiteShaped(KvKeys)
        /\ kv.out[1].abort = DuplicateAbort =>
              /\ KvLog[Len(KvLog)].op = "compare"
              /\ {KvLog[Len(KvLog)].index, KvLog[Len(KvLog)].i}
                    \cap SiteShaped(KvKeys) = {}

\* a site ID in second place was compared with the first key, then
\* shape-tested and rejected
C5_Witness ==
    /\ kv.out # <<>>
    /\ kv.out[1].abort = SiteIdAbort
    /\ \E e \in 1..Len(KvLog) : KvLog[e].op = "compare" /\ KvLog[e].i \in SiteShaped(KvKeys)

\* the values of the limit field drawn, as its validator lists them
LvValues == IF lv.kind = "quota" THEN QuotaTokens(lv.field) ELSE HardTokens(lv.field)

\* a whole number of decimal digits, one or greater
WellFormedQuota(t) ==
    /\ t # <<>>
    /\ \A k \in 1..Len(t) : t[k] \in DigitSet
    /\ \E k \in 1..Len(t) : t[k] # "0"

\* decimal digits with at most one point
WellFormedHard(t) ==
    /\ \A k \in 1..Len(t) : t[k] \in DigitSet \cup {"."}
    /\ \E k \in 1..Len(t) : t[k] \in DigitSet
    /\ Cardinality({k \in 1..Len(t) : t[k] = "."}) <= 1

LvWellFormed ==
    \A k \in 1..Len(LvValues) :
        IF lv.kind = "quota" THEN WellFormedQuota(LvValues[k])
        ELSE WellFormedHard(LvValues[k])

LvTooMany == IF lv.kind = "quota" THEN TooManyQuotaAbort ELSE TooManyHardAbort

Distance(a, b) == IF a >= b THEN a - b ELSE b - a

\* digits, a point, one digit; within 0.05 of the value submitted
OneDecimalOf(stored, given) ==
    /\ Len(stored) >= 3
    /\ stored[Len(stored) - 1] = "."
    /\ \A k \in 1..Len(stored) : k # Len(stored) - 1 => stored[k] \in DigitSet
    /\ Distance(Hundredths(stored), Hundredths(given)) <= 5

\* the list is accepted and stored normalised: the quotas joined by commas,
\* the hard limits each with one fractional digit
LvAccepted ==
    /\ lv.out[1].abort = None
    /\ ~lv.out[1].raised
    /\ IF lv.kind = "quota"
       THEN Split(lv.out[1].value) = LvValues \/ (LvValues = <<>> /\ lv.out[1].value = <<>>)
       ELSE /\ Len(Split(lv.out[1].value)) = Len(LvValues)
            /\ \A k \in 1..Len(LvValues) :
                  OneDecimalOf(Split(lv.out[1].value)[k], LvValues[k])

\* C6 as stated: a list of more values than keys is rejected as too many;
\* a list of at most as many, all well-formed, is accepted and normalised.
C6_TooManyOrAccepted ==
    lv.out # <<>> =>
        /\ Len(LvValues) > lv.api_count => lv.out[1].abort = LvTooMany
        /\ (Len(LvValues) <= lv.api_count /\ LvWellFormed) => LvAccepted

\* the list is rejected: an abort reason, or an error raised by a conversion
LvRejected ==
    /\ lv.out[1].raised \/ lv.out[1].abort # None
    /\ lv.out[1].value = <<>>

\* C6, amended: a list whose values are all well-formed is rejected as too
\* many when it has more values than keys and is accepted and normalised
\* otherwise; a list of more values than keys is rejected in every case, but
\* with a malformed value in it the reason may be that value's.
C6_WellFormedTooManyOrAccepted ==
    lv.out # <<>> =>
        /\ (Len(LvValues) > lv.api_count /\ LvWellFormed) => lv.out[1].abort = LvTooMany
        /\ (Len(LvValues) <= lv.api_count /\ LvWellFormed) => LvAccepted
        /\ Len(LvValues) > lv.api_count => LvRejected

\* more values than keys, one of them malformed
C6_Witness ==
    /\ lv.out # <<>>
    /\ Len(LvValues) > lv.api_count
    /\ ~LvWellFormed
    /\ lv.out[1].abort \in {NotNumberAbort, BelowOneAbort, HardNotNumberAbort}

====
